---- MODULE Spec2Model ----
(***************************************************************************)
(* Model of src/pages/api/edge/metatags.ts: the edge handler that fetches  *)
(* a page, walks its parsed tree for title / description / image metatags, *)
(* records usage in the background and answers with a JSON triple.         *)
(*                                                                         *)
(* Strings are sequences of lexemes (<<"https:", "//", "example.com",      *)
(* "/", "favicon.png">> is https://example.com/favicon.png, <<>> is the    *)
(* empty string), so that concatenation, URL resolution and entity         *)
(* decoding are computed and not looked up.  The JavaScript values         *)
(* undefined and null are two lexeme sequences no string is equal to.      *)
(***************************************************************************)
EXTENDS Integers, Sequences, FiniteSets, TLC

\* ------------------------------------------------------------------ bounds
MaxNodes == 3

\* ------------------------------------------------------- JavaScript values
Undefined == <<"<undefined>">>

Null == <<"<null>">>

Throw == <<"<throw>">>

\* a value the code's `!x`, `x || y` and `x ? a : b` treat as false
Falsy(v) == v = Undefined \/ v = Null \/ v = <<>>

\* JavaScript `a || b`
Or(a, b) == IF Falsy(a) THEN b ELSE a

\* JavaScript `typeof v === "string"`
IsString(v) == v # Undefined /\ v # Null

\* the property key a value is coerced to by obj[v]
ToKey(v) == IF v = Undefined THEN <<"undefined">> ELSE v

\* ---------------------------------------------------------- URL utilities
Schemes == {"http:", "https:"}

Separators == {"/", "//"}

\* @/lib/utils isValidUrl: present and an absolute http(s) URL with a host
isValidUrl(u) ==
  /\ IsString(u)
  /\ Len(u) >= 3
  /\ u[1] \in Schemes
  /\ u[2] = "//"
  /\ u[3] \notin Separators

\* @/lib/utils getDomainWithoutWWW: the host lexeme without a leading www.
getDomainWithoutWWW(u) ==
  IF u[3] = "www.developer.mozilla.org" THEN "developer.mozilla.org" ELSE u[3]

specialHostnames == {"developer.mozilla.org"}

\* new URL(ref, base).toString() for a base that is an origin (path "/")
ResolveAgainst(ref, base) ==
  IF ref[1] = "//"
    THEN IF Len(ref) >= 2 /\ ref[2] \notin Separators
           THEN IF Len(ref) = 2 THEN <<base[1]>> \o ref \o <<"/">>
                                ELSE <<base[1]>> \o ref
           ELSE Throw
  ELSE IF ref[1] \in Schemes THEN Throw
  ELSE IF ref[1] = "/" THEN base \o ref
  ELSE base \o <<"/">> \o ref

\* the page URL up to and including its last "/" (the directory of the page)
RECURSIVE DirOf(_)
DirOf(u) ==
  IF Len(u) <= 3 THEN u \o <<"/">>
  ELSE IF u[Len(u)] = "/" THEN u
  ELSE DirOf(SubSeq(u, 1, Len(u) - 1))

\* a resolver that keeps the page path: new URL(imageUrl, url)
getRelativeUrlAgainstPage(url, imageUrl) ==
  IF Falsy(imageUrl) THEN Null
  ELSE IF isValidUrl(imageUrl) THEN imageUrl
  ELSE IF imageUrl[1] \in Separators \/ imageUrl[1] \in Schemes
         THEN ResolveAgainst(imageUrl, <<url[1], "//", url[3]>>)
  ELSE DirOf(url) \o imageUrl

getRelativeUrl(url, imageUrl) ==
  IF Falsy(imageUrl) THEN Null
  ELSE IF isValidUrl(imageUrl) THEN imageUrl
  ELSE LET protocol == url[1]
           host == url[3]
           baseURL == <<protocol, "//", host>>
       IN  ResolveAgainst(imageUrl, baseURL)

\* ------------------------------------------------------- entity decoding
\* he.decode on one lexeme: a character reference becomes its character
DecodeLexeme(x) ==
  CASE x = "&amp;" -> "&"
    [] x = "&lt;" -> "<"
    [] x = "&quot;" -> "\""
    [] OTHER -> x

escapeEntities(string) ==
  IF ~IsString(string) THEN Throw
  ELSE [i \in 1..Len(string) |-> DecodeLexeme(string[i])]

\* ------------------------------------------------------------ parsed tree
ELEMENT_NODE == "element"

TEXT_NODE == "text"

NoAttributes ==
  [name |-> Undefined, property |-> Undefined, itemprop |-> Undefined,
   rel |-> Undefined, content |-> Undefined, href |-> Undefined]

Text(v) == [type |-> TEXT_NODE, name |-> "#text", attributes |-> NoAttributes,
            value |-> v, children |-> <<>>]

Element(tag, attrs, kids) ==
  [type |-> ELEMENT_NODE, name |-> tag, attributes |-> attrs,
   value |-> Undefined, children |-> kids]

\* the nodes documents are made of, in the shapes pages carry them
Meta(attrs) == Element("meta", attrs, <<>>)

Link(attrs) == Element("link", attrs, <<>>)

OgTitle == Meta([NoAttributes EXCEPT !.property = <<"og:title">>,
                   !.content = <<"OG ", "&amp;", " Title">>])

TwitterTitle == Meta([NoAttributes EXCEPT !.name = <<"twitter:title">>,
                        !.content = <<"Tw">>])

Description == Meta([NoAttributes EXCEPT !.name = <<"description">>,
                       !.content = <<"Desc">>])

OgDescription == Meta([NoAttributes EXCEPT !.property = <<"og:description">>,
                         !.itemprop = <<"description">>,
                         !.content = <<"OgDesc">>])

OgImage ==
  Meta([NoAttributes EXCEPT !.property = <<"og:image">>,
          !.content = <<"https:", "//", "cdn.example.com", "/", "og.png">>])

\* <meta name="twitter:image" content="https://">: no URL at all
BrokenTwitterImage == Meta([NoAttributes EXCEPT !.name = <<"twitter:image">>,
                              !.content = <<"https:", "//">>])

\* <meta name="twitter:image" content="//cdn.example.com/tw.png">
SchemeRelativeTwitterImage ==
  Meta([NoAttributes EXCEPT !.name = <<"twitter:image">>,
          !.content = <<"//", "cdn.example.com", "/", "tw.png">>])

\* <meta name="" property="og:title" content="Second">
EmptyNameOgTitle == Meta([NoAttributes EXCEPT !.name = <<>>,
                            !.property = <<"og:title">>,
                            !.content = <<"Second">>])

\* <meta name="twitter:description" content="">
EmptyTwitterDescription ==
  Meta([NoAttributes EXCEPT !.name = <<"twitter:description">>,
          !.content = <<>>])

\* <meta>
BareMeta == Meta(NoAttributes)

Icon == Link([NoAttributes EXCEPT !.rel = <<"icon">>,
                !.href = <<"/", "favicon.png">>])

\* <link rel="icon" href="">
EmptyIcon == Link([NoAttributes EXCEPT !.rel = <<"icon">>, !.href = <<>>])

ShortcutIcon == Link([NoAttributes EXCEPT !.rel = <<"shortcut icon">>,
                        !.href = <<"favicon.ico">>])

\* <link rel="image_src" content="" href="/img.png">
ImageSrc == Link([NoAttributes EXCEPT !.rel = <<"image_src">>,
                    !.content = <<>>,
                    !.href = <<"/", "img.png">>])

\* <a href="/about">
Anchor == Element("a", [NoAttributes EXCEPT !.href = <<"/", "about">>], <<>>)

\* <a name="twitter:description" href="">
EmptyDescription ==
  Element("a", [NoAttributes EXCEPT !.name = <<"twitter:description">>,
                  !.href = <<>>], <<>>)

Title == Element("title", NoAttributes, << Text(<<"Tom ", "&amp;", " Jerry">>) >>)

\* <title></title>
EmptyTitle == Element("title", NoAttributes, <<>>)

\* <script property="og:title" content="Injected">
Script == Element("script", [NoAttributes EXCEPT !.property = <<"og:title">>,
                               !.content = <<"Injected">>], <<>>)

Nodes ==
  { OgTitle, TwitterTitle, Description, OgDescription, OgImage,
    BrokenTwitterImage, SchemeRelativeTwitterImage, EmptyNameOgTitle, EmptyTwitterDescription, BareMeta,
    Icon, EmptyIcon, ShortcutIcon, ImageSrc, Anchor, EmptyDescription,
    Title, EmptyTitle, Text(<<"hello">>) }

KeyAttributes == {"name", "property", "itemprop", "rel"}

ChainKeys ==
  { <<"og:title">>, <<"twitter:title">>, <<"title">>,
    <<"description">>, <<"og:description">>, <<"twitter:description">>,
    <<"og:image">>, <<"twitter:image">>, <<"image_src">>, <<"icon">>,
    <<"shortcut icon">> }

\* every property name the callback can write or the precedence chains read
Keys ==
  ChainKeys \cup { ToKey(n.attributes[a]) : n \in Nodes, a \in KeyAttributes }

\* const obj = {}: reading a property never written gives undefined
EmptyObj == [k \in Keys |-> Undefined]

\* ---------------------------------------------------------- tag extractor
\* the callback of walk(): one node, the map before, the map after
VisitFirstPresent(obj, node) ==
  IF node.type # ELEMENT_NODE THEN [obj |-> obj, threw |-> FALSE]
  ELSE
    LET attributes == node.attributes
        Pick(a, b) == IF a # Undefined THEN a ELSE b
        property == Pick(attributes.name, Pick(attributes.property,
                      Pick(attributes.itemprop, attributes.rel)))
        content == Pick(attributes.content, attributes.href)
    IN  IF node.name = "title"
          THEN IF Len(node.children) = 0
                 THEN [obj |-> obj, threw |-> TRUE]
               ELSE LET text == escapeEntities(node.children[1].value)
                    IN  IF text = Throw
                          THEN [obj |-> obj, threw |-> TRUE]
                        ELSE [obj |-> [obj EXCEPT ![<<"title">>] = text],
                              threw |-> FALSE]
        ELSE IF ~IsString(content) THEN [obj |-> obj, threw |-> FALSE]
        ELSE [obj |-> [obj EXCEPT ![ToKey(property)] = escapeEntities(content)],
              threw |-> FALSE]

Visit(obj, node) ==
  IF node.type # ELEMENT_NODE THEN [obj |-> obj, threw |-> FALSE]
  ELSE
    LET attributes == node.attributes
        property == Or(Or(Or(attributes.name, attributes.property),
                          attributes.itemprop), attributes.rel)
        content == Or(attributes.content, attributes.href)
    IN  IF node.name = "title"
          THEN IF Len(node.children) = 0
                 THEN [obj |-> obj, threw |-> TRUE]
               ELSE LET text == escapeEntities(node.children[1].value)
                    IN  IF text = Throw
                          THEN [obj |-> obj, threw |-> TRUE]
                        ELSE [obj |-> [obj EXCEPT ![<<"title">>] = text],
                              threw |-> FALSE]
        ELSE IF ~IsString(content) THEN [obj |-> obj, threw |-> FALSE]
        ELSE [obj |-> [obj EXCEPT ![ToKey(property)] = escapeEntities(content)],
              threw |-> FALSE]

\* the precedence chains: the operator a chain a ?? b ?? c would use
FirstDefined(obj, chain) ==
  LET hits == SelectSeq(chain, LAMBDA k : obj[k] # Undefined)
  IN  IF hits = <<>> THEN Undefined ELSE obj[hits[1]]

\* a || b || c over the keys of chain, left to right
RECURSIVE OrChain(_, _)
OrChain(obj, chain) ==
  IF Len(chain) = 1 THEN obj[chain[1]]
  ELSE Or(obj[chain[1]], OrChain(obj, Tail(chain)))

TitleChain == << <<"og:title">>, <<"twitter:title">>, <<"title">> >>

DescriptionChain ==
  << <<"description">>, <<"og:description">>, <<"twitter:description">> >>

ImageChain ==
  << <<"og:image">>, <<"twitter:image">>, <<"image_src">>, <<"icon">>,
     <<"shortcut icon">> >>

\* recordMetatags' second argument: title && description && image ? false : true
MissingOnlyUndefined(title, description, image) ==
  title = Undefined \/ description = Undefined \/ image = Undefined

Missing(title, description, image) ==
  IF ~Falsy(title) /\ ~Falsy(description) /\ ~Falsy(image) THEN FALSE ELSE TRUE

\* lines 115-125 with ?? in place of ||
FieldsFirstDefined(obj) ==
  [title |-> FirstDefined(obj, TitleChain),
   description |-> FirstDefined(obj, DescriptionChain),
   image |-> FirstDefined(obj, ImageChain)]

\* lines 115-125: the final title, description and raw image
Fields(obj) ==
  [title |-> OrChain(obj, TitleChain),
   description |-> OrChain(obj, DescriptionChain),
   image |-> OrChain(obj, ImageChain)]

\* await walk(ast, callback): the callback on every node in document order,
\* stopping at the first node whose callback throws
RECURSIVE walk(_, _)
walk(ast, obj) ==
  IF ast = <<>> THEN [obj |-> obj, threw |-> FALSE]
  ELSE LET r == Visit(obj, Head(ast))
       IN  IF r.threw THEN r ELSE walk(Tail(ast), r.obj)

\* sanitize({ blockElements: ["script"] }): the tree without script elements
sanitize(html) == SelectSeq(html, LAMBDA n : n.name # "script")

\* lines 63-71: the tree getAst hands to walk
parse(url, html) ==
  IF getDomainWithoutWWW(url) \in specialHostnames THEN sanitize(html) ELSE html

\* ------------------------------------------------------------- the state
VARIABLES
  req,    \* the requests in flight: everything one invocation of handler holds
  used,   \* the rate limiter's count for the bucket in the current window
  ext     \* one run of the tag extractor, node by node

vars == <<req, used, ext>>

\* two invocations of the handler may be in flight at once
Requests == {"r1", "r2"}

RateLimitQuota == 2

Methods == {"GET", "POST"}

PageUrl == <<"https:", "//", "example.com", "/", "foo", "/", "bar">>

DocsUrl == <<"https:", "//", "www.developer.mozilla.org", "/", "docs">>

\* the url query parameter: missing, not a URL, or a page
UrlParameters == { Null, <<"not a url">>, PageUrl, DocsUrl }

\* getToken's results: no token, a token without an email, a token with one
NoSession == [present |-> FALSE, email |-> Undefined]

Sessions ==
  { NoSession,
    [present |-> TRUE, email |-> Undefined],
    [present |-> TRUE, email |-> <<"ada@example.com">>] }

\* session?.email
SessionEmail(session) == IF session.present THEN session.email ELSE Undefined

\* the pages the upstream serves
Pages ==
  { << OgTitle, Description, OgImage >>,
    << Script, Title, EmptyDescription, Icon >>,
    << OgTitle, Description, BrokenTwitterImage >>,
    << EmptyTitle >> }

NoJson == [title |-> Undefined, description |-> Undefined, image |-> Undefined]

NoResponse == [status |-> 0, text |-> "", json |-> NoJson]

Idle ==
  [pc |-> "idle", method |-> "GET", url |-> Null, session |-> NoSession,
   html |-> <<>>, ast |-> <<>>, json |-> NoJson,
   timer |-> "unset", deadline |-> FALSE,
   rec |-> "none", recUrl |-> Null, recMissing |-> FALSE,
   response |-> NoResponse,
   log |-> <<>>, nGetToken |-> 0, nLimit |-> 0, limitKey |-> "",
   limitFull |-> FALSE, nFetch |-> 0, nRecord |-> 0]

Init ==
  /\ req = [r \in Requests |-> Idle]
  /\ used = 0
  /\ ext = [pc |-> "off", url |-> PageUrl, ast |-> <<>>, idx |-> 1,
            obj |-> EmptyObj, fields |-> NoJson, image |-> Undefined]

\* ------------------------------------------------------------ the handler
Text400 == "Invalid URL"

\* line 29, without the emoji that ends it
Text429 == "Don't DDoS me pls"

\* lines 15 and 40-42 without the check of lines 17-19
EarlyResponseUnvalidated(method, url) ==
  IF method = "GET" THEN NoResponse
  ELSE [status |-> 405, text |-> "Method " \o method \o " Not Allowed",
        json |-> NoJson]

\* lines 15-19 and 40-42: what the handler answers before its first await
EarlyResponse(method, url) ==
  IF method = "GET"
    THEN IF ~isValidUrl(url)
           THEN [status |-> 400, text |-> Text400, json |-> NoJson]
         ELSE NoResponse
  ELSE [status |-> 405, text |-> "Method " \o method \o " Not Allowed",
        json |-> NoJson]

NeedsLimitAlways(session) == TRUE

\* line 26: !session?.email
NeedsLimit(session) == Falsy(SessionEmail(session))

\* @/lib/upstash ratelimit.limit: success while the bucket has quota left
limit(count) == count < RateLimitQuota

LimitedNever(success) == FALSE

\* line 28: !success
Limited(success) == ~success

\* an uncaught error: the runtime answers 500 with no structured body
Uncaught(q) ==
  [q EXCEPT !.pc = "done", !.html = <<>>,
            !.response = [status |-> 500, text |-> "", json |-> NoJson]]

\* lines 46-52: the controller, the 5 second timer and the fetch are started
getHtml(q) ==
  [q EXCEPT !.pc = "fetch", !.timer = "armed", !.deadline = FALSE,
            !.nFetch = @ + 1, !.log = Append(@, "fetch")]

\* a handler that starts the fetch again when it is rejected
FetchRejectedRetry(q) == getHtml(q)

\* the rejection of fetch() or res.text() is caught nowhere
FetchRejected(q) == Uncaught(q)

ResponseReadyAfterRecord(q) == q.pc = "respond" /\ q.rec # "inflight"

\* line 33: the handler resumes when getMetaTags has returned; the promise
\* given to ev.waitUntil is not awaited
ResponseReady(q) == q.pc = "respond"

\* lines 14-22 and 40-42: a request comes in and runs to its first await
Receive(r, method, url) ==
  /\ req[r].pc = "idle"
  /\ LET early == EarlyResponse(method, url)
         q == [Idle EXCEPT !.method = method, !.url = url]
     IN  req' = [req EXCEPT ![r] =
           IF early # NoResponse
             THEN [q EXCEPT !.pc = "done", !.response = early,
                            !.log = IF method = "GET" THEN <<"validate">> ELSE <<>>]
           ELSE [q EXCEPT !.pc = "getToken",
                          !.log = <<"validate", "authenticate">>]]
  /\ UNCHANGED <<used, ext>>

\* lines 22-27 and 33: getToken resolves to session; the limiter is called or
\* the fetch starts
GetTokenReturns(r, session) ==
  /\ req[r].pc = "getToken"
  /\ LET q == [req[r] EXCEPT !.nGetToken = @ + 1, !.session = session]
     IN  req' = [req EXCEPT ![r] =
           IF NeedsLimit(q.session)
             THEN [q EXCEPT !.pc = "limit", !.nLimit = @ + 1,
                            !.limitKey = "metatags",
                            !.log = Append(@, "ratelimit")]
           ELSE getHtml(q)]
  /\ UNCHANGED <<used, ext>>

\* lines 27-33: the limiter answers
LimitReturns(r) ==
  /\ req[r].pc = "limit"
  /\ LET success == limit(used)
         q == [req[r] EXCEPT !.limitFull = (used = RateLimitQuota)]
     IN  /\ used' = IF success THEN used + 1 ELSE used
         /\ req' = [req EXCEPT ![r] =
              IF Limited(success)
                THEN [q EXCEPT !.pc = "done",
                        !.response = [status |-> 429, text |-> Text429,
                                      json |-> NoJson]]
              ELSE getHtml(q)]
  /\ UNCHANGED ext

\* the limiter's window elapses
WindowReset ==
  /\ used > 0
  /\ used' = 0
  /\ UNCHANGED <<req, ext>>

\* lines 53-55: the response headers arrive; the timer is cleared, the body read starts
HeadersArrive(r) ==
  /\ req[r].pc = "fetch"
  /\ req' = [req EXCEPT ![r] = [@ EXCEPT !.pc = "text", !.timer = "cleared"]]
  /\ UNCHANGED <<used, ext>>

\* fetch() or res.text() rejects on a network failure
NetworkError(r) ==
  /\ req[r].pc \in {"fetch", "text"}
  /\ req' = [req EXCEPT ![r] = FetchRejected(@)]
  /\ UNCHANGED <<used, ext>>

\* 5000 ms have gone by since line 47; the timer, if still set, calls abort()
DeadlinePasses(r) ==
  /\ ~req[r].deadline
  /\ req[r].timer = "armed" \/ req[r].pc = "text"
  /\ LET q == [req[r] EXCEPT !.deadline = TRUE]
     IN  req' = [req EXCEPT ![r] =
           IF q.timer = "armed"
             THEN IF q.pc \in {"fetch", "text"}
                    THEN FetchRejected([q EXCEPT !.timer = "fired"])
                  ELSE [q EXCEPT !.timer = "fired"]
           ELSE q]
  /\ UNCHANGED <<used, ext>>

\* lines 55 and 62: the body has been read, getHtml returns it
BodyArrives(r, html) ==
  /\ req[r].pc = "text"
  /\ req' = [req EXCEPT ![r] =
       [@ EXCEPT !.pc = "parse", !.html = html, !.timer = "unset",
                 !.deadline = FALSE, !.log = Append(@, "parse")]]
  /\ UNCHANGED <<used, ext>>

\* lines 63-72
getAst(r) ==
  /\ req[r].pc = "parse"
  /\ req' = [req EXCEPT ![r] =
       [@ EXCEPT !.pc = "walk", !.ast = parse(req[r].url, req[r].html),
                 !.log = Append(@, "extract")]]
  /\ UNCHANGED <<used, ext>>

\* lines 93-135
getMetaTags(r) ==
  /\ req[r].pc = "walk"
  /\ LET q == req[r]
         w == walk(q.ast, EmptyObj)
         f == Fields(w.obj)
         recorded == [q EXCEPT !.rec = "inflight", !.recUrl = q.url,
                        !.recMissing = Missing(f.title, f.description, f.image),
                        !.nRecord = @ + 1]
         image == getRelativeUrl(q.url, f.image)
     IN  req' = [req EXCEPT ![r] =
           IF w.threw THEN Uncaught(q)
           ELSE IF image = Throw THEN Uncaught(recorded)
           ELSE [recorded EXCEPT !.pc = "respond", !.html = <<>>,
                   !.json = [title |-> f.title, description |-> f.description,
                             image |-> image]]]
  /\ UNCHANGED <<used, ext>>

\* lines 34-39
Respond(r) ==
  /\ ResponseReady(req[r])
  /\ req' = [req EXCEPT ![r] =
       [@ EXCEPT !.pc = "done", !.log = Append(@, "respond"),
                 !.response = [status |-> 200, text |-> "", json |-> req[r].json]]]
  /\ UNCHANGED <<used, ext>>

\* the promise handed to ev.waitUntil settles
RecordSettles(r, ok) ==
  /\ req[r].rec = "inflight"
  /\ req' = [req EXCEPT ![r] =
       [@ EXCEPT !.rec = IF ok THEN "done" ELSE "failed"]]
  /\ UNCHANGED <<used, ext>>

\* the invocation is over and nothing of it is left in the runtime
Release(r) ==
  /\ req[r].pc = "done"
  /\ req[r].rec # "inflight"
  /\ req[r].timer # "armed"
  /\ req' = [req EXCEPT ![r] = Idle]
  /\ UNCHANGED <<used, ext>>

Next ==
  \/ \E r \in Requests, method \in Methods, url \in UrlParameters :
       Receive(r, method, url)
  \/ \E r \in Requests, session \in Sessions : GetTokenReturns(r, session)
  \/ \E r \in Requests : LimitReturns(r)
  \/ WindowReset
  \/ \E r \in Requests : HeadersArrive(r)
  \/ \E r \in Requests : NetworkError(r)
  \/ \E r \in Requests : DeadlinePasses(r)
  \/ \E r \in Requests, html \in Pages : BodyArrives(r, html)
  \/ \E r \in Requests : getAst(r)
  \/ \E r \in Requests : getMetaTags(r)
  \/ \E r \in Requests : Respond(r)
  \/ \E r \in Requests, ok \in BOOLEAN : RecordSettles(r, ok)
  \/ \E r \in Requests : Release(r)

Spec == Init /\ [][Next]_vars

\* the runtime keeps the invocation alive until the waitUntil promise settles
FairSpec == Spec /\ \A r \in Requests : WF_vars(\E ok \in BOOLEAN : RecordSettles(r, ok))

\* ------------------------------------------------- the extractor, stepwise
Docs == UNION { [1..n -> Nodes] : n \in 0..MaxNodes }

ExtractInit ==
  /\ req = [r \in Requests |-> Idle]
  /\ used = 0
  /\ \E ast \in Docs :
       ext = [pc |-> "walk", url |-> PageUrl, ast |-> ast, idx |-> 1,
              obj |-> EmptyObj, fields |-> NoJson, image |-> Undefined]

\* lines 93-113: the callback on the next node
WalkStep ==
  /\ ext.pc = "walk"
  /\ ext.idx <= Len(ext.ast)
  /\ LET v == Visit(ext.obj, ext.ast[ext.idx])
     IN  ext' = IF v.threw THEN [ext EXCEPT !.pc = "threw"]
                ELSE [ext EXCEPT !.obj = v.obj, !.idx = @ + 1]
  /\ UNCHANGED <<req, used>>

\* lines 115-125
ComputeFields ==
  /\ ext.pc = "walk"
  /\ ext.idx > Len(ext.ast)
  /\ ext' = [ext EXCEPT !.pc = "resolve", !.fields = Fields(ext.obj)]
  /\ UNCHANGED <<req, used>>

\* line 134
ResolveImage ==
  /\ ext.pc = "resolve"
  /\ LET image == getRelativeUrl(ext.url, ext.fields.image)
     IN  ext' = IF image = Throw THEN [ext EXCEPT !.pc = "threw"]
                ELSE [ext EXCEPT !.pc = "done", !.image = image]
  /\ UNCHANGED <<req, used>>

ExtractNext == WalkStep \/ ComputeFields \/ ResolveImage

SpecExtract == ExtractInit /\ [][ExtractNext]_vars

\* =================================================================== claims
Received(r) == req[r].pc # "idle"

NoNetworkCall(q) ==
  q.nGetToken = 0 /\ q.nLimit = 0 /\ q.nFetch = 0 /\ q.nRecord = 0 /\ q.rec = "none"

\* C1 as stated: every request whose url parameter is missing or not a valid
\* URL is answered 400 "Invalid URL", and it makes no session verification, no
\* limiter check, no outbound fetch and no usage recording, before or after
\* the response.
C1_AnyRequestInvalidUrl400 ==
  \A r \in Requests :
    Received(r) /\ ~isValidUrl(req[r].url) =>
      /\ req[r].pc = "done"
      /\ req[r].response.status = 400
      /\ req[r].response.text = Text400
      /\ NoNetworkCall(req[r])

\* C1 amended: every GET request whose url parameter is missing or not a
\* valid URL is answered 400 "Invalid URL" and makes no session verification,
\* no limiter check, no outbound fetch and no usage recording, before or
\* after the response.
C1_GetInvalidUrl400 ==
  \A r \in Requests :
    Received(r) /\ req[r].method = "GET" /\ ~isValidUrl(req[r].url) =>
      /\ req[r].pc = "done"
      /\ req[r].response.status = 400
      /\ req[r].response.text = Text400
      /\ NoNetworkCall(req[r])

C1_Witness ==
  \E r \in Requests :
    /\ req[r].pc = "done" /\ req[r].method = "GET" /\ req[r].url = Null
    /\ req[r].response.status = 400

\* the limiter has answered request r
LimiterAnswered(r) ==
  req[r].nLimit = 1 /\ req[r].pc \notin {"idle", "getToken", "limit"}

\* C2: of the unauthenticated GET requests with valid URLs that reach a
\* limiter of quota N in one window, the first N pass the gate and start the
\* fetch, and one that comes when N have passed is answered 429 with the
\* fixed message; a request answered 429 makes no outbound fetch and no
\* usage recording.
C2_QuotaThen429 ==
  /\ used <= RateLimitQuota
  /\ \A r \in Requests :
       /\ LimiterAnswered(r) =>
            /\ ~req[r].limitFull =>
                 req[r].response.status # 429 /\ req[r].nFetch = 1
            /\ req[r].limitFull =>
                 req[r].response.status = 429 /\ req[r].pc = "done"
       /\ req[r].response.status = 429 =>
            /\ req[r].response.text = Text429
            /\ req[r].nFetch = 0
            /\ req[r].nRecord = 0
            /\ req[r].rec = "none"
            /\ req[r].method = "GET" /\ isValidUrl(req[r].url)
            /\ Falsy(SessionEmail(req[r].session))

C2_Witness ==
  \E r \in Requests :
    /\ req[r].response.status = 429
    /\ req[r].limitFull
    /\ used = RateLimitQuota

Authenticated(r) == ~Falsy(SessionEmail(req[r].session))

TokenResolved(r) == req[r].nGetToken = 1

\* C3: a request whose session token resolves to an identity never calls
\* the limiter, never consumes quota and is never answered 429, whatever the
\* limiter's state; a request whose token resolution gives no token, or a
\* token without an email, makes exactly one limiter check, on the bucket
\* key "metatags".
C3_AuthenticatedBypass ==
  /\ [](\A r \in Requests :
          TokenResolved(r) =>
            /\ Authenticated(r) =>
                 /\ req[r].nLimit = 0
                 /\ req[r].limitKey = ""
                 /\ req[r].response.status # 429
            /\ ~Authenticated(r) =>
                 /\ req[r].nLimit = 1
                 /\ req[r].limitKey = "metatags")
  /\ [][used' > used =>
          \E r \in Requests :
            /\ ~Authenticated(r)
            /\ req[r].pc = "limit"
            /\ req'[r].pc # "limit"]_vars

C3_Witness ==
  \E r \in Requests :
    /\ Authenticated(r)
    /\ req[r].response.status = 200
    /\ used = RateLimitQuota

\* the walk of request r's tree ran to its end and the fields were computed
CompletedExtraction(r) ==
  /\ req[r].pc \in {"respond", "done"}
  /\ Len(req[r].log) >= 1
  /\ \E i \in 1..Len(req[r].log) : req[r].log[i] = "extract"
  /\ ~walk(req[r].ast, EmptyObj).threw

Absent(v) == v = Undefined \/ v = Null

AbsentOrEmpty(v) == v = Undefined \/ v = Null \/ v = <<>>

StepsLimited ==
  <<"validate", "authenticate", "ratelimit", "fetch", "parse", "extract", "respond">>

StepsAuthenticated ==
  <<"validate", "authenticate", "fetch", "parse", "extract", "respond">>

IsPrefix(s, t) == Len(s) <= Len(t) /\ s = SubSeq(t, 1, Len(s))

Count(s, x) == Cardinality({i \in 1..Len(s) : s[i] = x})

\* the step a request is in the middle of
StepInProgress(q) ==
  CASE q.pc = "getToken" -> "authenticate"
    [] q.pc = "limit" -> "ratelimit"
    [] q.pc \in {"fetch", "text"} -> "fetch"
    [] q.pc = "parse" -> "parse"
    [] q.pc \in {"walk", "respond"} -> "extract"
    [] OTHER -> "none"

\* C5: the steps of one request start in the order validate, authenticate /
\* rate-limit, fetch, parse, extract, respond, each only when the one before
\* it is over; no step is started twice; a request starts at most one
\* outbound fetch, and exactly one when it gets past the gate or is answered 200.
C5_SequentialSteps ==
  \A r \in Requests :
    LET q == req[r] IN
    /\ IsPrefix(q.log, StepsLimited) \/ IsPrefix(q.log, StepsAuthenticated)
    /\ StepInProgress(q) # "none" => q.log[Len(q.log)] = StepInProgress(q)
    /\ q.nFetch = Count(q.log, "fetch")
    /\ q.nFetch <= 1 /\ q.nGetToken <= 1 /\ q.nLimit <= 1 /\ q.nRecord <= 1
    /\ q.pc \in {"fetch", "text", "parse", "walk", "respond"} => q.nFetch = 1
    /\ q.response.status = 200 =>
         /\ q.log \in {StepsLimited, StepsAuthenticated}
         /\ q.nFetch = 1

C5_Witness ==
  \E r \in Requests :
    /\ req[r].response.status = 200
    /\ req[r].log = StepsLimited
    /\ req[r].nFetch = 1

\* C6: once the 5 seconds of the timer are over no request is still waiting
\* for the upstream response, headers or body: the operation was aborted and
\* the request ended as a failure.
C6_NoReadAfterDeadline ==
  \A r \in Requests :
    req[r].deadline => req[r].pc \notin {"fetch", "text"}

\* C7: the response does not wait for the recording (a request whose
\* getMetaTags has returned can be answered whatever the recording does),
\* settling the recording, with success or failure, changes neither the
\* response nor what will be answered, a response once given stays as it is,
\* and a recording in flight eventually settles.
C7_RecordingDetached ==
  /\ [](\A r \in Requests : req[r].pc = "respond" => ENABLED Respond(r))
  /\ [][\A r \in Requests :
          req[r].rec = "inflight" /\ req'[r].rec \in {"done", "failed"} =>
            /\ req'[r].response = req[r].response
            /\ req'[r].json = req[r].json
            /\ req'[r].pc = req[r].pc]_vars
  /\ [][\A r \in Requests :
          req[r].response.status # 0 /\ req'[r].pc # "idle" =>
            req'[r].response = req[r].response]_vars
  /\ \A r \in Requests :
       (req[r].rec = "inflight") ~> (req[r].rec \in {"done", "failed"})

C7_Witness ==
  \E r \in Requests :
    /\ req[r].pc = "done"
    /\ req[r].response.status = 200
    /\ req[r].rec = "inflight"

\* ------------------------------------------------ claims on the extractor
FieldsComputed == ext.pc \in {"resolve", "done"}

\* the first key of chain whose entry is defined (an empty string included)
ClaimFirstDefined(obj, chain) ==
  IF \E i \in 1..Len(chain) : obj[chain[i]] # Undefined
    THEN obj[chain[CHOOSE i \in 1..Len(chain) :
                     /\ obj[chain[i]] # Undefined
                     /\ \A j \in 1..(i - 1) : obj[chain[j]] = Undefined]]
  ELSE Undefined

\* the first key of chain whose entry is a non-empty string; when there is
\* none, the entry of the last key of the chain, empty or undefined
ClaimFirstNonEmpty(obj, chain) ==
  IF \E i \in 1..Len(chain) : ~AbsentOrEmpty(obj[chain[i]])
    THEN obj[chain[CHOOSE i \in 1..Len(chain) :
                     /\ ~AbsentOrEmpty(obj[chain[i]])
                     /\ \A j \in 1..(i - 1) : AbsentOrEmpty(obj[chain[j]])]]
  ELSE obj[chain[Len(chain)]]

DecodedTitleText == <<"Tom ", "&", " Jerry">>

TitleFallsBack ==
  /\ ext.obj[<<"og:title">>] = Undefined
  /\ ext.obj[<<"twitter:title">>] = Undefined
  /\ \E i \in 1..Len(ext.ast) : ext.ast[i] = Title

\* C8 as stated: after the traversal each final field is the first defined
\* entry of the tag map in the fixed precedence, an empty string counting as
\* defined; without og:title and twitter:title the title is the decoded
\* text of the title element.
C8_FirstDefinedWins ==
  FieldsComputed =>
    /\ ext.fields.title = ClaimFirstDefined(ext.obj, TitleChain)
    /\ ext.fields.description = ClaimFirstDefined(ext.obj, DescriptionChain)
    /\ ext.fields.image = ClaimFirstDefined(ext.obj, ImageChain)
    /\ TitleFallsBack => ext.fields.title = DecodedTitleText

\* C8 amended: after the traversal each final field is the first non-empty
\* entry of the tag map in the fixed precedence, an empty string being passed
\* over like a missing one (when no entry is non-empty the field is the entry
\* of the last key, empty or undefined); without og:title and twitter:title
\* the title is the decoded text of the title element.
C8_FirstNonEmptyWins ==
  FieldsComputed =>
    /\ ext.fields.title = ClaimFirstNonEmpty(ext.obj, TitleChain)
    /\ ext.fields.description = ClaimFirstNonEmpty(ext.obj, DescriptionChain)
    /\ ext.fields.image = ClaimFirstNonEmpty(ext.obj, ImageChain)
    /\ TitleFallsBack => ext.fields.title = DecodedTitleText

C8_Witness ==
  /\ FieldsComputed
  /\ ext.obj[<<"icon">>] = <<>>
  /\ ext.obj[<<"shortcut icon">>] = <<"favicon.ico">>
  /\ ext.fields.image = <<"favicon.ico">>
  /\ TitleFallsBack
  /\ ext.fields.title = DecodedTitleText

FirstPresent(vs) ==
  IF \E i \in 1..Len(vs) : vs[i] # Undefined
    THEN vs[CHOOSE i \in 1..Len(vs) :
              vs[i] # Undefined /\ \A j \in 1..(i - 1) : vs[j] = Undefined]
  ELSE Undefined

\* the first non-empty string of vs; when there is none, the last of vs
FirstNonEmpty(vs) ==
  IF \E i \in 1..Len(vs) : ~AbsentOrEmpty(vs[i])
    THEN vs[CHOOSE i \in 1..Len(vs) :
              ~AbsentOrEmpty(vs[i]) /\ \A j \in 1..(i - 1) : AbsentOrEmpty(vs[j])]
  ELSE vs[Len(vs)]

KeyCandidates(n) ==
  <<n.attributes.name, n.attributes.property, n.attributes.itemprop,
    n.attributes.rel>>

ValueCandidates(n) == <<n.attributes.content, n.attributes.href>>

IsTitle(n) == n.type = ELEMENT_NODE /\ n.name = "title"

\* what the last node of ast[1..upto] that wrote key k left there, a node
\* writing under Key(n) the decoded Value(n) unless Value(n) is undefined;
\* undefined when no node wrote k
LastWritten(k, ast, upto, Key(_), Value(_)) ==
  LET Writes(i) ==
        /\ ast[i].type = ELEMENT_NODE
        /\ IF IsTitle(ast[i]) THEN k = <<"title">>
           ELSE Value(ast[i]) # Undefined /\ ToKey(Key(ast[i])) = k
      writers == {i \in 1..upto : Writes(i)}
  IN  IF writers = {} THEN Undefined
      ELSE LET last == CHOOSE i \in writers : \A j \in writers : j <= i
           IN  IF IsTitle(ast[last])
                 THEN [j \in 1..Len(ast[last].children[1].value) |->
                         DecodeLexeme(ast[last].children[1].value[j])]
               ELSE [j \in 1..Len(Value(ast[last])) |->
                       DecodeLexeme(Value(ast[last])[j])]

Visited == IF ext.pc = "off" THEN 0 ELSE ext.idx - 1

KeyFirstPresent(n) == FirstPresent(KeyCandidates(n))

ValueFirstPresent(n) == FirstPresent(ValueCandidates(n))

KeyFirstNonEmpty(n) == FirstNonEmpty(KeyCandidates(n))

ValueFirstNonEmpty(n) == FirstNonEmpty(ValueCandidates(n))

\* C9 as stated: each non-title element is filed under the first present of
\* name, property, itemprop, rel with the decoded first present of content,
\* href, and skipped when neither content nor href is present; a later
\* element overwrites an earlier one, so every key holds what the last
\* element that produced it gave.
C9_FirstPresentLastWins ==
  \A k \in Keys :
    ext.obj[k] = LastWritten(k, ext.ast, Visited, KeyFirstPresent, ValueFirstPresent)

\* C9 amended: each non-title element is filed under the first non-empty of
\* name, property, itemprop, rel (under rel's empty string or the literal
\* "undefined" when none is non-empty) with the decoded first non-empty of
\* content, href (href's empty string when neither is non-empty), and skipped
\* when content is absent or empty and href is absent; a later element
\* overwrites an earlier one, so every key holds what the last element that
\* produced it gave.
C9_FirstNonEmptyLastWins ==
  \A k \in Keys :
    ext.obj[k] = LastWritten(k, ext.ast, Visited, KeyFirstNonEmpty, ValueFirstNonEmpty)

C9_Witness ==
  /\ ext.pc = "walk"
  /\ ext.idx = 4
  /\ ext.ast[1] = OgTitle
  /\ ext.ast[2] = EmptyNameOgTitle
  /\ ext.ast[3] = ImageSrc
  /\ ext.obj[<<"og:title">>] = <<"Second">>
  /\ ext.obj[<<"image_src">>] = <<"/", "img.png">>
  /\ ext.obj[<<>>] = Undefined

OriginOf(url) == SubSeq(url, 1, 3)

IsRelativeRef(v) == ~AbsentOrEmpty(v) /\ ~isValidUrl(v)

\* the reference v put on the origin of the page: behind the scheme when it
\* names a host, behind the origin when it is a path, a "/" in between when
\* the path is not rooted
OnOrigin(url, v) ==
  IF v[1] = "//" THEN <<url[1]>> \o v
  ELSE IF v[1] = "/" THEN OriginOf(url) \o v
  ELSE OriginOf(url) \o <<"/">> \o v

Resolved == ext.pc = "done"

\* C10: the image is null when the raw image is empty or missing, the raw
\* image itself when that is an absolute URL, and otherwise the raw image
\* resolved against the origin of the page, the path of the page dropped;
\* an absolute og:image beside a relative icon is returned as it is, and
\* /favicon.png on https://example.com/foo/bar gives
\* https://example.com/favicon.png.
C10_ImageResolution ==
  /\ Resolved =>
       /\ AbsentOrEmpty(ext.fields.image) => ext.image = Null
       /\ isValidUrl(ext.fields.image) => ext.image = ext.fields.image
       /\ IsRelativeRef(ext.fields.image) =>
            ext.image = OnOrigin(ext.url, ext.fields.image)
       /\ isValidUrl(ext.obj[<<"og:image">>]) /\ IsRelativeRef(ext.obj[<<"icon">>]) =>
            ext.image = ext.obj[<<"og:image">>]
       /\ ext.fields.image = <<"/", "favicon.png">> =>
            ext.image = <<"https:", "//", "example.com", "/", "favicon.png">>
  /\ ext.pc \in {"done", "threw"} /\ ext.fields.image # Undefined =>
       (ext.pc = "threw" <=> ext.fields.image = <<"https:", "//">>)

C10_Witness ==
  /\ Resolved
  /\ ext.url = <<"https:", "//", "example.com", "/", "foo", "/", "bar">>
  /\ ext.fields.image = <<"favicon.ico">>
  /\ ext.image = <<"https:", "//", "example.com", "/", "favicon.ico">>

====
